---- MODULE Spec2Model ----
(***************************************************************************)
(* pdb-addr2line: dump_pdb (src/src/main.rs) walks every module of a PDB,   *)
(* tracks procedure nesting over the module's linear symbol stream, and     *)
(* prints one frame per target address covered by a procedure's line table  *)
(* or by an inline site's line records.                                     *)
(*                                                                          *)
(* The PDB is the environment: the run reads it record by record, each      *)
(* read drawing the next record from a small set and appending it to pdb.   *)
(***************************************************************************)
EXTENDS Integers, Sequences, FiniteSets, TLC

VARIABLES
    targets,       \* dump_pdb's argument: the target RVAs, in command-line order
    pdb,           \* the modules read so far, each with the symbol records read so far
    mi,            \* modules consumed from dbi.modules() (0: none yet)
    si,            \* symbol records consumed from the current module's stream
    status,        \* "modules": at modules.next(); "symbols": at symbols.next();
                   \* "done": Ok(()); "error": an Err returned to main; "panic"
    depth,         \* main.rs:82
    inc_next,      \* main.rs:83
    proc_offsets,  \* main.rs:85, a stack of <<depth, offset>>, top last
    out,           \* the lines println! has written, as frames
    out_mark       \* history: Len(out) when the last symbol record was taken

vars == <<targets, pdb, mi, si, status, depth, inc_next, proc_offsets,
          out, out_mark>>

(***************************************************************************)
(* Bounds of the model.                                                     *)
(***************************************************************************)
MaxRecords == 5      \* module entries and symbol records read from a PDB in Spec
MaxModules == 2      \* modules per PDB
MaxLines == 3        \* records per procedure line table in SpecLines
MaxInlineLines == 2  \* line records per inlinee in SpecInline
MaxDataRecords == 3  \* as MaxRecords, in SpecLines and SpecInline

(***************************************************************************)
(* Option values, as Rust's Option: None, Some(v).                          *)
(***************************************************************************)
None == <<>>
Some(v) == <<v>>

(***************************************************************************)
(* The address map.  to_rva adds the section's RVA to a section offset and  *)
(* fails for an offset in code the linker discarded.                        *)
(***************************************************************************)
SectionRva == 10
Discarded == {3}

to_rva_any(offset) == Some(offset + SectionRva)

to_rva(offset) ==
    IF offset \in Discarded THEN None ELSE Some(offset + SectionRva)

(***************************************************************************)
(* File references of line records.  get_file_info fails for an index with  *)
(* no file record; to_string_lossy fails for a name that is not in the      *)
(* string table.                                                            *)
(***************************************************************************)
NoFileInfo == {3}
BadName == {2}

get_file_info(file_index) ==
    IF file_index \in NoFileInfo THEN None ELSE Some(file_index)

to_string_lossy(name_ref) ==
    IF name_ref \in BadName THEN None
    ELSE Some(IF name_ref = 0 THEN "a.c" ELSE "b.c")

(***************************************************************************)
(* The IPI stream (id_information): items in index order, each item parsing *)
(* as IdData::Function, as another kind of id record, or not at all.        *)
(***************************************************************************)
Ipi ==
    << [index |-> 1, kind |-> "Function", name |-> "bar"],
       [index |-> 2, kind |-> "MemberFunction", name |-> "C::m"],
       [index |-> 3, kind |-> "Unparsable", name |-> ""],
       [index |-> 5, kind |-> "Function", name |-> "gone"] >>

Frame(target, name, file, line) ==
    [target |-> target, name |-> name, file |-> file, line |-> line]

(***************************************************************************)
(* Results of the loops that print: the frames printed, and how the loop    *)
(* ended: "ok", "error" (an Err taken by ?), "panic" (unwrap / expect).     *)
(***************************************************************************)
Res(frames, end) == [frames |-> frames, end |-> end]

Then(r, rest) ==
    IF r.end # "ok" THEN r ELSE Res(r.frames \o rest.frames, rest.end)

(***************************************************************************)
(* Symbol records.  kind is the raw record kind, which decides              *)
(* starts_scope / ends_scope even when the record's payload does not parse: *)
(*   "Proc"  S_GPROC32, S_LPROC32, ...   opens a scope, parses as Procedure *)
(*   "Block" S_BLOCK32, S_THUNK32, ...   opens a scope, parses as other data*)
(*   "Site"  S_INLINESITE                opens a scope, parses as InlineSite*)
(*   "End"   S_END, S_INLINESITE_END, S_PROC_ID_END   ends a scope          *)
(*   "Other" any record that neither opens nor ends a scope                 *)
(*   "IterErr" is no record: symbols.next() returns Err at this position    *)
(***************************************************************************)
starts_scope(symbol) == symbol.kind \in {"Proc", "Block", "Site"}

ends_scope(symbol) == symbol.kind = "End"

\* symbol.parse(), main.rs:102: which arm of the match is taken
parse(symbol) ==
    IF ~symbol.parses THEN "Err"
    ELSE IF symbol.kind = "Proc" THEN "Procedure"
    ELSE IF symbol.kind = "Site" THEN "InlineSite"
    ELSE "Other"

Top(stack) == stack[Len(stack)]

Pop(stack) == SubSeq(stack, 1, Len(stack) - 1)

\* main.rs:97: proc_offsets.last().map_or(false, |&(d, _)| d >= depth)
ClosesProcStrict(stack, d) == stack # <<>> /\ Top(stack)[1] > d
ClosesProc(stack, d) == stack # <<>> /\ Top(stack)[1] >= d

\* main.rs:89-100: the scope bookkeeping done for every record before it is parsed
ScopeStep(w, symbol) ==
    LET d1 == IF w.inc_next THEN w.depth + 1 ELSE w.depth
        d2 == IF ends_scope(symbol) THEN d1 - 1 ELSE d1
        st == IF ends_scope(symbol) /\ ClosesProc(w.proc_offsets, d2)
              THEN Pop(w.proc_offsets) ELSE w.proc_offsets
    IN [depth |-> d2, inc_next |-> starts_scope(symbol), proc_offsets |-> st]

(***************************************************************************)
(* The direct line lookup of a procedure, main.rs:111-125: the records of   *)
(* lines_at_offset(proc.offset) scanned with one record of lookahead.       *)
(***************************************************************************)
\* main.rs:118, the test on the record peeked
NextIsPastOrAt(next_rva, target) == next_rva >= target
NextIsPast(next_rva, target) == next_rva > target

RECURSIVE ScanLines(_, _, _, _)
ScanLines(proc, lines, target, i) ==
    IF i > Len(lines) THEN Res(<<>>, "ok")                       \* lines.next() is None
    ELSE
      LET line_info == lines[i]
          rva == to_rva(line_info.offset)
          file_info == get_file_info(line_info.file_index)
          file_name == IF file_info = None THEN None ELSE to_string_lossy(file_info[1])
      IN IF rva = None THEN Res(<<>>, "panic")                   \* expect("invalid rva")
         ELSE IF file_info = None THEN Res(<<>>, "error")        \* get_file_info(..)?
         ELSE IF file_name = None THEN Res(<<>>, "error")        \* to_string_lossy(..)?
         ELSE
           LET frame == Frame(target, proc.name, file_name[1], line_info.line_start)
           IN IF i = Len(lines)
              THEN Res(<<frame>>, "ok")                          \* peek is None: print
              ELSE IF rva[1] <= target                           \* && short-circuits
                   THEN LET next == to_rva(lines[i + 1].offset)
                        IN IF next = None THEN Res(<<>>, "panic") \* expect("invalid rva")
                           ELSE IF NextIsPast(next[1], target)
                                THEN Res(<<frame>>, "ok")        \* print, break
                                ELSE ScanLines(proc, lines, target, i + 1)
                   ELSE ScanLines(proc, lines, target, i + 1)

\* main.rs:109
InProcRangeClosed(start, len, target) == start <= target /\ target <= start + len
InProcRange(start, len, target) == start <= target /\ target < start + len

RECURSIVE ProcTargetsUntilFound(_, _, _, _, _)
ProcTargetsUntilFound(proc, lines, start, tgts, k) ==
    IF k > Len(tgts) THEN Res(<<>>, "ok")
    ELSE IF InProcRange(start, proc.len, tgts[k])
         THEN LET r == ScanLines(proc, lines, tgts[k], 1)
              IN IF r.frames # <<>> THEN r
                 ELSE Then(r, ProcTargetsUntilFound(proc, lines, start, tgts, k + 1))
         ELSE ProcTargetsUntilFound(proc, lines, start, tgts, k + 1)

\* main.rs:108-127: for target in &targets
RECURSIVE ProcTargets(_, _, _, _, _)
ProcTargets(proc, lines, start, tgts, k) ==
    IF k > Len(tgts) THEN Res(<<>>, "ok")
    ELSE IF InProcRange(start, proc.len, tgts[k])
         THEN Then(ScanLines(proc, lines, tgts[k], 1),
                   ProcTargets(proc, lines, start, tgts, k + 1))
         ELSE ProcTargets(proc, lines, start, tgts, k + 1)

\* main.rs:106-130
ProcFrames(proc, program, tgts) ==
    LET start == to_rva(proc.offset)
    IN IF start = None THEN Res(<<>>, "ok")
       ELSE ProcTargets(proc, program[proc.offset], start[1], tgts, 1)

(***************************************************************************)
(* collect_lines, main.rs:23-50, over inlinee.lines(parent_offset, &site):  *)
(* the inlinee's line records, their offsets relative to the parent         *)
(* procedure's offset.  lines is Some(the LineInfo collected), or the way   *)
(* the call ended instead.                                                  *)
(***************************************************************************)
LineInfo(address, size, file, line) ==
    [address |-> address, size |-> size, file |-> file, line |-> line]

RECURSIVE collect_lines(_, _, _)
collect_lines(line_iter, parent_offset, i) ==
    IF i > Len(line_iter) THEN [lines |-> <<>>, end |-> "ok"]
    ELSE
      LET line_info == line_iter[i]
          rva == to_rva(parent_offset + line_info.delta)
          rest == collect_lines(line_iter, parent_offset, i + 1)
      IN IF rva = None THEN rest                                  \* None => continue
         ELSE
           LET file_info == get_file_info(line_info.file_index)
               name == IF file_info = None THEN None ELSE to_string_lossy(file_info[1])
           IN IF file_info = None THEN [lines |-> <<>>, end |-> "error"]
              ELSE IF name = None THEN [lines |-> <<>>, end |-> "panic"]   \* .unwrap()
              ELSE IF rest.end # "ok" THEN rest
              ELSE [lines |-> <<LineInfo(rva[1], line_info.length, name[1],
                                         line_info.line_start)>> \o rest.lines,
                    end |-> "ok"]

(***************************************************************************)
(* main.rs:148-166: the name printed for a matching inline LineInfo, found  *)
(* by scanning the IPI stream for the first item with the site's inlinee id.*)
(***************************************************************************)
RECURSIVE InlineeName(_, _, _)
InlineeName(ipi, inlinee, i) ==
    IF i > Len(ipi) THEN "unknown_inline_function"
    ELSE IF ipi[i].index = inlinee
         THEN IF ipi[i].kind = "Function" THEN ipi[i].name
              ELSE "unknown_inline_function"
         ELSE InlineeName(ipi, inlinee, i + 1)

\* main.rs:147, with Rust's short-circuit &&: "panic" when size.unwrap() is reached
\* on a None, else whether the LineInfo covers the target
Covers(l, target) ==
    IF l.address <= target
    THEN IF l.size = None THEN "panic"
         ELSE IF l.address + l.size[1] > target THEN "yes" ELSE "no"
    ELSE "no"

\* main.rs:146-168: for target in &targets, for one LineInfo
RECURSIVE LineTargets(_, _, _, _)
LineTargets(l, inlinee, tgts, k) ==
    IF k > Len(tgts) THEN Res(<<>>, "ok")
    ELSE LET c == Covers(l, tgts[k])
         IN IF c = "panic" THEN Res(<<>>, "panic")
            ELSE IF c = "yes"
                 THEN Then(Res(<<Frame(tgts[k], InlineeName(Ipi, inlinee, 1),
                                       l.file, l.line)>>, "ok"),
                           LineTargets(l, inlinee, tgts, k + 1))
                 ELSE LineTargets(l, inlinee, tgts, k + 1)

RECURSIVE TargetLines(_, _, _, _)
TargetLines(lines, inlinee, target, i) ==
    IF i > Len(lines) THEN Res(<<>>, "ok")
    ELSE Then(LineTargets(lines[i], inlinee, <<target>>, 1),
              TargetLines(lines, inlinee, target, i + 1))

RECURSIVE SiteLinesByTarget(_, _, _, _)
SiteLinesByTarget(lines, inlinee, tgts, j) ==
    IF j > Len(tgts) THEN Res(<<>>, "ok")
    ELSE Then(TargetLines(lines, inlinee, tgts[j], 1),
              SiteLinesByTarget(lines, inlinee, tgts, j + 1))

\* main.rs:145-169: for l in lines
RECURSIVE SiteLines(_, _, _, _)
SiteLines(lines, inlinee, tgts, j) ==
    IF j > Len(lines) THEN Res(<<>>, "ok")
    ELSE Then(LineTargets(lines[j], inlinee, tgts, 1),
              SiteLines(lines, inlinee, tgts, j + 1))

ParentOffsetOutermost(stack) == IF stack = <<>> THEN None ELSE Some(stack[1][2])

\* main.rs:134-136: proc_offsets.last().map(|&(_, offset)| offset).unwrap()
ParentOffset(stack) == IF stack = <<>> THEN None ELSE Some(Top(stack)[2])

\* main.rs:133-171, for a site whose record parsed: inlinees is the module's inlinee
\* table, a function from the ids it lists to their line records
SiteFrames(site, stack, inlinees, tgts) ==
    LET parent_offset == ParentOffset(stack)
    IN IF parent_offset = None THEN Res(<<>>, "panic")
       ELSE IF site.inlinee \notin DOMAIN inlinees THEN Res(<<>>, "ok")
       ELSE LET got == collect_lines(inlinees[site.inlinee], parent_offset[1], 1)
            IN IF got.end # "ok" THEN Res(<<>>, got.end)
               ELSE SiteLines(got.lines, site.inlinee, tgts, 1)

(***************************************************************************)
(* The records the environment can hold.                                    *)
(***************************************************************************)
Sym(kind, parses, name, offset, len, inlinee) ==
    [kind |-> kind, parses |-> parses, name |-> name, offset |-> offset,
     len |-> len, inlinee |-> inlinee]

ProcFoo == Sym("Proc", TRUE, "foo", 0, 4, 0)     \* RVAs [10, 14)
ProcBaz == Sym("Proc", TRUE, "baz", 4, 2, 0)     \* RVAs [14, 16)
ProcDead == Sym("Proc", TRUE, "dead", 3, 2, 0)   \* its offset does not translate
ProcBad == Sym("Proc", FALSE, "", 0, 0, 0)       \* a procedure record parse() rejects
Block == Sym("Block", TRUE, "", 0, 0, 0)
End == Sym("End", TRUE, "", 0, 0, 0)
Other == Sym("Other", TRUE, "", 0, 0, 0)
Site(inlinee) == Sym("Site", TRUE, "", 0, 0, inlinee)
SiteBad == Sym("Site", FALSE, "", 0, 0, 1)
IterErr == Sym("IterErr", FALSE, "", 0, 0, 0)

ProcOffsets == {0, 3, 4}

Line(offset, length, file_index, line_start) ==
    [offset |-> offset, length |-> length, file_index |-> file_index,
     line_start |-> line_start]

InlineLine(delta, length, file_index, line_start) ==
    [delta |-> delta, length |-> length, file_index |-> file_index,
     line_start |-> line_start]

Module(info, program, inlinees) ==
    [info |-> info, program |-> program, inlinees |-> inlinees, symbols |-> <<>>]

(***************************************************************************)
(* State after main has parsed its arguments, before dump_pdb opens the     *)
(* file: T is the set of target lists the run may have been given.          *)
(***************************************************************************)
InitWith(T) ==
    /\ targets \in T
    /\ pdb = <<>>
    /\ mi = 0
    /\ si = 0
    /\ status = "modules"
    /\ depth = 0
    /\ inc_next = FALSE
    /\ proc_offsets = <<>>
    /\ out = <<>>
    /\ out_mark = 0

Locals == [depth |-> depth, inc_next |-> inc_next, proc_offsets |-> proc_offsets]

ModuleLocalsKept == Locals

\* main.rs:82-85
ModuleLocals == [depth |-> 0, inc_next |-> FALSE, proc_offsets |-> <<>>]

SetLocals(w) ==
    /\ depth' = w.depth
    /\ inc_next' = w.inc_next
    /\ proc_offsets' = w.proc_offsets

\* main.rs:89-173, the body of the symbol loop for one record: the locals after it,
\* and the frames printed by the arm of the match taken
Handled(w, symbol, program, inlinees, tgts) ==
    LET w1 == ScopeStep(w, symbol)
    IN CASE parse(symbol) = "Procedure" ->
              [w |-> [w1 EXCEPT !.proc_offsets = Append(@, <<w1.depth, symbol.offset>>)],
               res |-> ProcFrames(symbol, program, tgts)]
         [] parse(symbol) = "InlineSite" ->
              [w |-> w1, res |-> SiteFrames(symbol, w1.proc_offsets, inlinees, tgts)]
         [] OTHER ->
              [w |-> w1, res |-> Res(<<>>, "ok")]

\* the symbol records read from the first k modules
RECURSIVE SymbolsRead(_, _)
SymbolsRead(file, k) ==
    IF k = 0 THEN 0 ELSE Len(file[k].symbols) + SymbolsRead(file, k - 1)

\* the module entries and symbol records read from the file so far
RecordsRead(file) == Len(file) + SymbolsRead(file, Len(file))

\* modules.next() returns module m, one of M, while fewer than n records were read
ReadsModule(M, n, m) ==
    /\ status = "modules"
    /\ Len(pdb) < MaxModules
    /\ RecordsRead(pdb) < n
    /\ m \in M
    /\ pdb' = Append(pdb, m)
    /\ mi' = mi + 1
    /\ si' = 0

\* symbols.next() returns symbol, one of S, while fewer than n records were read
ReadsSymbol(S, n, symbol) ==
    /\ status = "symbols"
    /\ RecordsRead(pdb) < n
    /\ symbol \in S
    /\ pdb' = [pdb EXCEPT ![mi].symbols = Append(@, symbol)]
    /\ si' = si + 1
    /\ out_mark' = Len(out)

\* println! of the frames a handler printed before it ended, and the way it ended
EmitUnlessFailed(r) ==
    /\ out' = IF r.end = "ok" THEN out \o r.frames ELSE out
    /\ status' = IF r.end = "ok" THEN "symbols" ELSE r.end
Emit(r) ==
    /\ out' = out \o r.frames
    /\ status' = IF r.end = "ok" THEN "symbols" ELSE r.end

\* main.rs:67-85: the next module has module info
NextModule(M, n) ==
    \E m \in M :
        /\ ReadsModule(M, n, m)
        /\ m.info = "ok"
        /\ status' = "symbols"
        /\ SetLocals(ModuleLocals)
        /\ UNCHANGED <<targets, out, out_mark>>

\* main.rs:69-75: module_info is None
SkipModule(M, n) ==
    \E m \in M :
        /\ ReadsModule(M, n, m)
        /\ m.info = "none"
        /\ UNCHANGED <<targets, status, depth, inc_next, proc_offsets, out, out_mark>>

\* main.rs:67-80: modules.next(), module_info, inlinees, line_program or symbols is Err
ModuleError(M, n) ==
    \E m \in M :
        /\ ReadsModule(M, n, m)
        /\ m.info = "err"
        /\ status' = "error"
        /\ UNCHANGED <<targets, depth, inc_next, proc_offsets, out, out_mark>>

\* main.rs:87-173 for a record: the scope bookkeeping, then the arm of the match
HandleSymbol(symbol) ==
    LET h == Handled(Locals, symbol, pdb[mi].program, pdb[mi].inlinees, targets)
    IN /\ SetLocals(h.w)
       /\ Emit(h.res)
       /\ UNCHANGED <<targets, mi>>

\* main.rs:103-132
HandleProcedure(S, n) ==
    \E symbol \in S :
        /\ ReadsSymbol(S, n, symbol)
        /\ parse(symbol) = "Procedure"
        /\ HandleSymbol(symbol)

\* main.rs:133-171
HandleInlineSite(S, n) ==
    \E symbol \in S :
        /\ ReadsSymbol(S, n, symbol)
        /\ parse(symbol) = "InlineSite"
        /\ HandleSymbol(symbol)

\* main.rs:172: any other record, and any record that does not parse
HandleOther(S, n) ==
    \E symbol \in S :
        /\ ReadsSymbol(S, n, symbol)
        /\ symbol.kind # "IterErr"
        /\ parse(symbol) \in {"Other", "Err"}
        /\ HandleSymbol(symbol)

\* main.rs:87: symbols.next()? is Err
SymbolsError(S, n) ==
    \E symbol \in S :
        /\ ReadsSymbol(S, n, symbol)
        /\ symbol.kind = "IterErr"
        /\ status' = "error"
        /\ UNCHANGED <<targets, mi, depth, inc_next, proc_offsets, out>>

\* main.rs:87: symbols.next()? is None
EndModule ==
    /\ status = "symbols"
    /\ status' = "modules"
    /\ UNCHANGED <<targets, pdb, mi, si, depth, inc_next, proc_offsets, out, out_mark>>

\* main.rs:67, 177: modules.next()? is None, dump_pdb returns Ok(())
Finish ==
    /\ status = "modules"
    /\ status' = "done"
    /\ UNCHANGED <<targets, pdb, mi, si, depth, inc_next, proc_offsets, out, out_mark>>

(***************************************************************************)
(* Spec: the scope walk.  Streams of up to MaxSymbols records over every    *)
(* kind of record, in up to MaxModules modules with one line program and    *)
(* one inlinee table.                                                       *)
(***************************************************************************)
ProgramDefault ==
    [o \in ProcOffsets |->
        CASE o = 0 -> <<Line(0, Some(2), 0, 10), Line(2, None, 0, 12)>>
          [] o = 3 -> <<Line(3, None, 0, 30)>>
          [] o = 4 -> <<Line(4, None, 1, 20)>>
          [] OTHER -> <<>>]

\* every listed inlinee covers RVAs [parent + 1, parent + 3)
InlineesDefault == [i \in 1..4 |-> <<InlineLine(1, Some(2), 1, 42)>>]

ModsWalk ==
    {Module("ok", ProgramDefault, InlineesDefault),
     Module("none", ProgramDefault, InlineesDefault),
     Module("err", ProgramDefault, InlineesDefault)}

SymsWalk == {ProcFoo, ProcBaz, ProcBad, Block, Site(1), Site(5), SiteBad, End, Other, IterErr}

TargetsWalk == {<<SectionRva + 2, SectionRva + 5>>}

Init == InitWith(TargetsWalk)

Next ==
    \/ NextModule(ModsWalk, MaxRecords)
    \/ SkipModule(ModsWalk, MaxRecords)
    \/ ModuleError(ModsWalk, MaxRecords)
    \/ HandleProcedure(SymsWalk, MaxRecords)
    \/ HandleInlineSite(SymsWalk, MaxRecords)
    \/ HandleOther(SymsWalk, MaxRecords)
    \/ SymbolsError(SymsWalk, MaxRecords)
    \/ EndModule
    \/ Finish

Spec == Init /\ [][Next]_vars

\* the sequences of at most n elements of S
SeqsUpTo(S, n) == UNION {[1..k -> S] : k \in 0..n}

(***************************************************************************)
(* SpecLines: the direct line lookup.  One procedure, foo at RVAs [10, 14), *)
(* with every line table of up to MaxLines records over the cells below,    *)
(* and targets around and inside its range.  The i-th record of a table     *)
(* has line_start 10 + i, so that a frame names the record it came from.    *)
(***************************************************************************)
\* <<offset, length, file_index>>
LineCells ==
    {<<0, Some(1), 0>>, <<1, None, 0>>, <<2, Some(2), 0>>, <<3, None, 0>>,
     <<4, None, 0>>, <<1, Some(1), 2>>}

LineTable(cells) ==
    [i \in 1..Len(cells) |-> Line(cells[i][1], cells[i][2], cells[i][3], 10 + i)]

ProgramsLines ==
    {[o \in ProcOffsets |-> IF o = 0 THEN LineTable(c) ELSE <<>>] :
        c \in SeqsUpTo(LineCells, MaxLines)}

\* the first module of the file has any of the line programs, later ones the default
ModsLines ==
    IF pdb = <<>>
    THEN {Module("ok", p, InlineesDefault) : p \in ProgramsLines}
         \cup {Module("none", ProgramDefault, InlineesDefault),
               Module("err", ProgramDefault, InlineesDefault)}
    ELSE ModsWalk

SymsLines == {ProcFoo, Site(1), End, IterErr}

TargetsLines ==
    {<<t>> : t \in (SectionRva - 1)..(SectionRva + 4)}
    \cup {<<SectionRva, SectionRva + 2>>, <<SectionRva + 2, SectionRva>>}

InitLines == InitWith(TargetsLines)

NextLines ==
    \/ NextModule(ModsLines, MaxDataRecords)
    \/ SkipModule(ModsLines, MaxDataRecords)
    \/ ModuleError(ModsLines, MaxDataRecords)
    \/ HandleProcedure(SymsLines, MaxDataRecords)
    \/ HandleInlineSite(SymsLines, MaxDataRecords)
    \/ HandleOther(SymsLines, MaxDataRecords)
    \/ SymbolsError(SymsLines, MaxDataRecords)
    \/ EndModule
    \/ Finish

SpecLines == InitLines /\ [][NextLines]_vars

(***************************************************************************)
(* SpecInline: inline sites.  Every inlinee table in which the listed ids   *)
(* 1..4 have the same line records, up to MaxInlineLines of the cells       *)
(* below; sites of every id, inside foo (offset 0) or inside dead, whose    *)
(* offset 3 does not translate.                                             *)
(***************************************************************************)
InlineCells ==
    {InlineLine(1, Some(2), 1, 42),     \* inside foo: RVAs [11, 13)
     InlineLine(2, Some(3), 0, 43),     \* inside foo: RVAs [12, 15), past foo's end
     InlineLine(1, None, 1, 44),        \* no length
     InlineLine(3, Some(1), 1, 45),     \* inside foo: offset 3, which does not translate
     InlineLine(1, Some(2), 2, 46),     \* its file name does not decode
     InlineLine(1, Some(2), 3, 47)}     \* it has no file record

InlineeTables == {[i \in 1..4 |-> t] : t \in SeqsUpTo(InlineCells, MaxInlineLines)}

\* the first module of the file has any of the inlinee tables, later ones the default
ModsInline ==
    IF pdb = <<>>
    THEN {Module("ok", ProgramDefault, t) : t \in InlineeTables}
         \cup {Module("none", ProgramDefault, InlineesDefault),
               Module("err", ProgramDefault, InlineesDefault)}
    ELSE ModsWalk

SymsInline == {ProcFoo, ProcDead, Site(1), Site(2), Site(3), Site(4), Site(5), End, IterErr}

TargetsInline ==
    {<<t>> : t \in (SectionRva + 1)..(SectionRva + 4)}
    \cup {<<SectionRva + 2, SectionRva + 1>>, <<SectionRva + 2, SectionRva + 2>>}

InitInline == InitWith(TargetsInline)

NextInline ==
    \/ NextModule(ModsInline, MaxDataRecords)
    \/ SkipModule(ModsInline, MaxDataRecords)
    \/ ModuleError(ModsInline, MaxDataRecords)
    \/ HandleProcedure(SymsInline, MaxDataRecords)
    \/ HandleInlineSite(SymsInline, MaxDataRecords)
    \/ HandleOther(SymsInline, MaxDataRecords)
    \/ SymbolsError(SymsInline, MaxDataRecords)
    \/ EndModule
    \/ Finish

SpecInline == InitInline /\ [][NextInline]_vars

(***************************************************************************)
(* The last record of the current module processed, and what the stream     *)
(* itself says about scopes: the scope-opening records not yet closed by a  *)
(* scope-end record, innermost last.  ok is FALSE once a scope-end record   *)
(* has come with no scope open or a procedure record has failed to parse.   *)
(***************************************************************************)
InModule == mi > 0 /\ pdb[mi].info = "ok"

LastSymbol == pdb[mi].symbols[si]

RECURSIVE ScopesAfter(_, _)
ScopesAfter(symbols, k) ==
    IF k = 0 THEN [ok |-> TRUE, open |-> <<>>]
    ELSE LET p == ScopesAfter(symbols, k - 1)
             s == symbols[k]
         IN IF ~p.ok THEN p
            ELSE IF s.kind \in {"Proc", "Block", "Site"}
                 THEN [ok |-> (s.kind = "Proc" => s.parses), open |-> Append(p.open, s)]
            ELSE IF s.kind = "End"
                 THEN IF p.open = <<>> THEN [ok |-> FALSE, open |-> <<>>]
                      ELSE [ok |-> TRUE, open |-> Pop(p.open)]
            ELSE p

OpenProcs(open) == SelectSeq(open, LAMBDA s : s.kind = "Proc")

WellFormedSoFar == InModule /\ ScopesAfter(pdb[mi].symbols, si).ok

(***************************************************************************)
(* C1.  While the records processed so far are well formed (no scope end    *)
(* without an open scope, every procedure record parsed), depth is >= 0     *)
(* and proc_offsets has one entry per procedure scope opened and not yet    *)
(* closed.                                                                  *)
(***************************************************************************)
C1_StackCountsOpenProcedures ==
    WellFormedSoFar =>
        /\ depth >= 0
        /\ Len(proc_offsets) = Len(OpenProcs(ScopesAfter(pdb[mi].symbols, si).open))

\* a scope-end record has closed a nested scope and left its procedure on the stack
C1_Witness ==
    /\ WellFormedSoFar
    /\ si >= 3
    /\ LastSymbol.kind = "End"
    /\ Len(proc_offsets) = 1
    /\ depth = 1

(***************************************************************************)
(* The frames printed while the last symbol record was handled.             *)
(***************************************************************************)
StepFrames == SubSeq(out, out_mark + 1, Len(out))

FramesFor(frames, target) == SelectSeq(frames, LAMBDA f : f.target = target)

Occurrences(tgts, target) == Cardinality({k \in 1..Len(tgts) : tgts[k] = target})

\* a procedure record has been handled and its offset translated
AfterProcedure ==
    /\ InModule
    /\ si > 0
    /\ parse(LastSymbol) = "Procedure"
    /\ to_rva(LastSymbol.offset) # None

ProcStart == to_rva(LastSymbol.offset)[1]

ProcLines == pdb[mi].program[LastSymbol.offset]

\* the records of a line table all translate, to strictly increasing RVAs
StrictlyIncreasing(lines) ==
    /\ \A i \in 1..Len(lines) : to_rva(lines[i].offset) # None
    /\ \A i \in 1..(Len(lines) - 1) :
          to_rva(lines[i].offset)[1] < to_rva(lines[i + 1].offset)[1]

\* record i of a table whose records translate is the one the spec lets cover target
CoversHere(lines, i, target) ==
    /\ to_rva(lines[i].offset)[1] <= target
    /\ i = Len(lines) \/ to_rva(lines[i + 1].offset)[1] > target

\* the file a line record names has file information and a name that decodes
FileDecodes(line_info) == line_info.file_index \notin (NoFileInfo \cup BadName)

FileOf(line_info) == to_string_lossy(get_file_info(line_info.file_index)[1])[1]

(***************************************************************************)
(* C2.  After a procedure record whose line table has strictly increasing   *)
(* offsets, unless the lookup returned an error: for every target T in      *)
(* [start, start + len) with T >= the first record's offset, the frames     *)
(* printed for T are one per occurrence of T in the target list, each the   *)
(* frame of the one record R with R.offset <= T and (R last or next > T),   *)
(* and the lookup did not panic.                                            *)
(***************************************************************************)
C2_DirectLookupFindsTheCoveringRecord ==
    (AfterProcedure /\ status # "error" /\ ProcLines # <<>>
       /\ StrictlyIncreasing(ProcLines)) =>
        /\ status # "panic"
        /\ \A k \in 1..Len(targets) :
             LET T == targets[k]
             IN (/\ ProcStart <= T
                 /\ T < ProcStart + LastSymbol.len
                 /\ T >= to_rva(ProcLines[1].offset)[1]) =>
                   \E i \in 1..Len(ProcLines) :
                      /\ CoversHere(ProcLines, i, T)
                      /\ \A j \in 1..Len(ProcLines) : CoversHere(ProcLines, j, T) => j = i
                      /\ FileDecodes(ProcLines[i])
                      /\ FramesFor(StepFrames, T) =
                           [n \in 1..Occurrences(targets, T) |->
                              Frame(T, LastSymbol.name, FileOf(ProcLines[i]),
                                    ProcLines[i].line_start)]

\* a table of three records, the target covered by the middle one, whose frame is out
C2_Witness ==
    /\ AfterProcedure
    /\ status = "symbols"
    /\ Len(ProcLines) = 3
    /\ StrictlyIncreasing(ProcLines)
    /\ targets = <<SectionRva + 1>>
    /\ CoversHere(ProcLines, 2, SectionRva + 1)
    /\ out = <<Frame(SectionRva + 1, "foo", "a.c", 12)>>

(***************************************************************************)
(* After an inline site record that parsed.                                 *)
(***************************************************************************)
AfterSite == InModule /\ si > 0 /\ parse(LastSymbol) = "InlineSite"

\* the procedure records, parsed or not, whose scope the last record lies in
EnclosingProcs == OpenProcs(ScopesAfter(pdb[mi].symbols, si - 1).open)

Listed(inlinee) == inlinee \in DOMAIN pdb[mi].inlinees

(***************************************************************************)
(* C3.  After an inline site record that lies in the scope of a procedure   *)
(* record of a balanced stream and whose inlinee id is not in the module's  *)
(* inlinee table: the site printed no frame and the run goes on (it has     *)
(* neither panicked nor returned an error).                                 *)
(***************************************************************************)
C3_MissingInlineeIsSkipped ==
    (/\ AfterSite
     /\ ~Listed(LastSymbol.inlinee)
     /\ ScopesAfter(pdb[mi].symbols, si - 1).open # <<>>
     /\ EnclosingProcs # <<>>) =>
        /\ StepFrames = <<>>
        /\ status \notin {"panic", "error"}

(***************************************************************************)
(* What the spec lets an inline site print: the LineInfo of the inlinee's   *)
(* records that translate, and for each of them, in order, one frame per    *)
(* target in [address, address + size).                                     *)
(***************************************************************************)
Translated(records, parent_offset) ==
    LET kept == SelectSeq(records, LAMBDA r : to_rva(parent_offset + r.delta) # None)
    IN [i \in 1..Len(kept) |->
          [address |-> to_rva(parent_offset + kept[i].delta)[1],
           size |-> kept[i].length,
           file_index |-> kept[i].file_index,
           line |-> kept[i].line_start]]

InRangeOf(l, target) ==
    /\ l.size # None
    /\ l.address <= target
    /\ target < l.address + l.size[1]

\* the name the spec gives a site's frames
NameInIpi(inlinee) ==
    IF \E i \in 1..Len(Ipi) : Ipi[i].index = inlinee /\ Ipi[i].kind = "Function"
    THEN Ipi[CHOOSE i \in 1..Len(Ipi) :
                Ipi[i].index = inlinee /\ Ipi[i].kind = "Function"].name
    ELSE "unknown_inline_function"

RECURSIVE ExpectedForLine(_, _, _, _)
ExpectedForLine(l, name, tgts, k) ==
    IF k > Len(tgts) THEN <<>>
    ELSE (IF InRangeOf(l, tgts[k])
          THEN <<Frame(tgts[k], name, to_string_lossy(l.file_index)[1], l.line)>>
          ELSE <<>>) \o ExpectedForLine(l, name, tgts, k + 1)

RECURSIVE ExpectedForSite(_, _, _, _)
ExpectedForSite(ls, name, tgts, j) ==
    IF j > Len(ls) THEN <<>>
    ELSE ExpectedForLine(ls[j], name, tgts, 1) \o ExpectedForSite(ls, name, tgts, j + 1)

\* an inline site with a parent procedure on the stack and a listed inlinee
AfterListedSite == AfterSite /\ proc_offsets # <<>> /\ Listed(LastSymbol.inlinee)

SiteLineInfos == Translated(pdb[mi].inlinees[LastSymbol.inlinee], Top(proc_offsets)[2])

\* every record of an inlinee's line table names a file whose name decodes
FilesDecode(records) == \A i \in 1..Len(records) : FileDecodes(records[i])

\* the range the spec gives LineInfo j of a site: [address, address + size) when the
\* size is known, else up to the next LineInfo's address, unbounded for the last
InSpecRange(ls, j, target) ==
    /\ ls[j].address <= target
    /\ IF ls[j].size # None THEN target < ls[j].address + ls[j].size[1]
       ELSE j = Len(ls) \/ target < ls[j + 1].address

RECURSIVE NamedForLine(_, _, _, _, _)
NamedForLine(ls, j, name, tgts, k) ==
    IF k > Len(tgts) THEN <<>>
    ELSE (IF InSpecRange(ls, j, tgts[k])
          THEN <<Frame(tgts[k], name, to_string_lossy(ls[j].file_index)[1], ls[j].line)>>
          ELSE <<>>) \o NamedForLine(ls, j, name, tgts, k + 1)

RECURSIVE NamedForSite(_, _, _, _)
NamedForSite(ls, name, tgts, j) ==
    IF j > Len(ls) THEN <<>>
    ELSE NamedForLine(ls, j, name, tgts, 1) \o NamedForSite(ls, name, tgts, j + 1)

(***************************************************************************)
(* C4.  After an inline site with a listed inlinee whose line records all   *)
(* name files that decode: the site printed exactly one frame per (LineInfo,*)
(* target) pair with the target in the LineInfo's range, and each frame     *)
(* carries the IPI item's name when the IPI stream has an item with the     *)
(* site's inlinee id that is an IdData::Function, and the sentinel          *)
(* "unknown_inline_function" otherwise (no item, an item that does not      *)
(* parse, an item of another kind).                                         *)
(***************************************************************************)
C4_InlineFrameNames ==
    (AfterListedSite /\ FilesDecode(pdb[mi].inlinees[LastSymbol.inlinee])) =>
        StepFrames = NamedForSite(SiteLineInfos, NameInIpi(LastSymbol.inlinee),
                                  targets, 1)

\* whether target lies in the range of a procedure record of the file that parsed and
\* whose offset translates
InSomeProcedure(target) ==
    \E m \in 1..Len(pdb) : \E k \in 1..Len(pdb[m].symbols) :
        LET p == pdb[m].symbols[k]
        IN /\ parse(p) = "Procedure"
           /\ to_rva(p.offset) # None
           /\ to_rva(p.offset)[1] <= target
           /\ target < to_rva(p.offset)[1] + p.len

RECURSIVE SitesInsideProcedures(_, _)
SitesInsideProcedures(symbols, k) ==
    IF k = 0 THEN TRUE
    ELSE /\ SitesInsideProcedures(symbols, k - 1)
         /\ ScopesAfter(symbols, k - 1).open # <<>> \/ symbols[k].kind # "End"
         /\ symbols[k].kind = "Site" =>
               OpenProcs(ScopesAfter(symbols, k - 1).open) # <<>>

(***************************************************************************)
(* C6.  In a stream whose scope records are balanced so far and whose       *)
(* inline sites all lie in the scope of a procedure record, records that    *)
(* fail to parse do not end the run: after any record handled, the run has  *)
(* not panicked.  (In Spec every line record translates, has a length and   *)
(* a file name, so nothing but the walk itself can panic.)                  *)
(***************************************************************************)
C6_UnparsableRecordsAreSkipped ==
    (InModule /\ si > 0 /\ SitesInsideProcedures(pdb[mi].symbols, si)) =>
        status # "panic"

(***************************************************************************)
(* C7.  A line record whose offset fails translation is dropped and does    *)
(* not abort the run, also in the direct line lookup: after a procedure     *)
(* record is handled the run has not panicked.                              *)
(***************************************************************************)
C7_UntranslatableLineRecordIsDropped ==
    AfterProcedure => status # "panic"

(***************************************************************************)
(* dump_pdb as a function of the file and the targets, main.rs:67-177: the  *)
(* frames printed for the records from the k-th of a module on, and for the *)
(* modules from the m-th on.                                                *)
(***************************************************************************)
RECURSIVE WalkFrames(_, _, _, _, _, _)
WalkFrames(symbols, k, w, program, inlinees, tgts) ==
    IF k > Len(symbols) THEN Res(<<>>, "ok")
    ELSE IF symbols[k].kind = "IterErr" THEN Res(<<>>, "error")
    ELSE LET h == Handled(w, symbols[k], program, inlinees, tgts)
         IN Then(h.res, WalkFrames(symbols, k + 1, h.w, program, inlinees, tgts))

RECURSIVE FileFrames(_, _, _)
FileFrames(file, m, tgts) ==
    IF m > Len(file) THEN Res(<<>>, "ok")
    ELSE IF file[m].info = "none" THEN FileFrames(file, m + 1, tgts)
    ELSE IF file[m].info = "err" THEN Res(<<>>, "error")
    ELSE Then(WalkFrames(file[m].symbols, 1, ModuleLocals, file[m].program,
                         file[m].inlinees, tgts),
              FileFrames(file, m + 1, tgts))

(***************************************************************************)
(* C8, as claimed.  A run that ended with an error has printed no frame.    *)
(***************************************************************************)
C8_NoOutputBeforeFatalError ==
    status = "error" => out = <<>>

(***************************************************************************)
(* C8, amended.  A run that ended with an error has printed exactly the     *)
(* frames of the records handled up to the error, in order: what was        *)
(* printed before the error stays printed.                                  *)
(***************************************************************************)
C8_OutputUpToFatalErrorIsKept ==
    status = "error" =>
        /\ FileFrames(pdb, 1, targets).end = "error"
        /\ out = FileFrames(pdb, 1, targets).frames

\* the lookup for a second target returned an error after the first target's frame
C8_Witness ==
    /\ status = "error"
    /\ AfterProcedure
    /\ Len(targets) = 2
    /\ Len(out) = 1
    /\ out[1].target = targets[1]

\* the procedure record whose scope the last record lies in, innermost
EnclosingProc == EnclosingProcs[Len(EnclosingProcs)]

\* record i of a line table translates, starts at or before target, and is the last
\* record or is followed by one that translates past target
CoversTarget(lines, i, target) ==
    /\ to_rva(lines[i].offset) # None
    /\ to_rva(lines[i].offset)[1] <= target
    /\ \/ i = Len(lines)
       \/ /\ to_rva(lines[i + 1].offset) # None
          /\ to_rva(lines[i + 1].offset)[1] > target

(***************************************************************************)
(* C10.  After an inline site with a listed inlinee, inside a procedure     *)
(* whose record parsed and whose offset translates, the run still going:    *)
(* the site printed exactly one frame per translated LineInfo and target    *)
(* with the target in [address, address + size), with that LineInfo's file  *)
(* and line; and for every such target that also lies in the procedure's    *)
(* [start, start + len), the output holds the procedure's own frame: the    *)
(* procedure's name with the file and line of a record of its line table    *)
(* that covers the target.                                                  *)
(***************************************************************************)
C10_InlineFramesJoinTheProcedureFrame ==
    (/\ AfterListedSite
     /\ status \notin {"panic", "error"}
     /\ EnclosingProcs # <<>>
     /\ EnclosingProc.parses
     /\ to_rva(EnclosingProc.offset) # None) =>
        LET P == EnclosingProc
            start == to_rva(P.offset)[1]
            lines == pdb[mi].program[P.offset]
            want == ExpectedForSite(SiteLineInfos, NameInIpi(LastSymbol.inlinee),
                                    targets, 1)
        IN /\ [n \in 1..Len(StepFrames) |->
                  <<StepFrames[n].target, StepFrames[n].file, StepFrames[n].line>>]
              = [n \in 1..Len(want) |-> <<want[n].target, want[n].file, want[n].line>>]
           /\ \A n \in 1..Len(StepFrames) :
                 LET T == StepFrames[n].target
                 IN (start <= T /\ T < start + P.len) =>
                       \E i \in 1..Len(lines) :
                          /\ CoversTarget(lines, i, T)
                          /\ FileDecodes(lines[i])
                          /\ \E q \in 1..Len(out) :
                                out[q] = Frame(T, P.name, FileOf(lines[i]),
                                               lines[i].line_start)

(***************************************************************************)
(* C11.  While the records processed so far are well formed, proc_offsets   *)
(* holds, bottom to top, the offsets of the procedure records whose scope   *)
(* is open, outermost first: so a scope-end record removes one entry when   *)
(* it closes a procedure's scope, that procedure's, and none otherwise.     *)
(* After an inline site record that lies in a procedure's scope the stack   *)
(* is not empty, the run has not panicked, and the frames the site printed  *)
(* are those of its inlinee's line records anchored at the offset of the    *)
(* innermost open procedure.                                                *)
(***************************************************************************)
C11_SiteIsAnchoredAtInnermostProcedure ==
    WellFormedSoFar =>
        LET open == OpenProcs(ScopesAfter(pdb[mi].symbols, si).open)
        IN /\ [i \in 1..Len(proc_offsets) |-> proc_offsets[i][2]]
                = [i \in 1..Len(open) |-> open[i].offset]
           /\ (AfterSite /\ EnclosingProcs # <<>>) =>
                 /\ status # "panic"
                 /\ proc_offsets # <<>>
                 /\ Listed(LastSymbol.inlinee) =>
                       StepFrames =
                          ExpectedForSite(Translated(pdb[mi].inlinees[LastSymbol.inlinee],
                                                     EnclosingProc.offset),
                                          NameInIpi(LastSymbol.inlinee), targets, 1)

\* a site in a procedure nested in another, its frame anchored at the inner procedure
C11_Witness ==
    /\ WellFormedSoFar
    /\ AfterSite
    /\ Len(EnclosingProcs) = 2
    /\ EnclosingProcs[1].offset # EnclosingProcs[2].offset
    /\ Listed(LastSymbol.inlinee)
    /\ StepFrames # <<>>
    /\ StepFrames[1].target = to_rva(EnclosingProc.offset)[1] + 1

(***************************************************************************)
(* C12.  After a procedure record is handled: every frame the direct line   *)
(* lookup printed for a target T carries the file and line of a record R    *)
(* of the procedure's line table with R.offset <= T, whichever position R   *)
(* has in the table.                                                        *)
(***************************************************************************)
C12_LookupFrameStartsAtOrBeforeTarget ==
    AfterProcedure =>
        \A n \in 1..Len(StepFrames) :
            \E i \in 1..Len(ProcLines) :
                /\ to_rva(ProcLines[i].offset) # None
                /\ to_rva(ProcLines[i].offset)[1] <= StepFrames[n].target
                /\ FileDecodes(ProcLines[i])
                /\ StepFrames[n] = Frame(StepFrames[n].target, LastSymbol.name,
                                         FileOf(ProcLines[i]), ProcLines[i].line_start)

(***************************************************************************)
(* C13.  After a procedure record is handled: when the frame printed for a  *)
(* target T carries the file and line of a record R of the line table that  *)
(* starts at or before T and whose length is known, T lies before           *)
(* R.offset + R.length: a target in the gap between the end of R's range    *)
(* and the next record is not given R's frame.                              *)
(***************************************************************************)
C13_KnownLengthBoundsTheRecord ==
    AfterProcedure =>
        \A n \in 1..Len(StepFrames) : \A i \in 1..Len(ProcLines) :
            (/\ to_rva(ProcLines[i].offset) # None
             /\ to_rva(ProcLines[i].offset)[1] <= StepFrames[n].target
             /\ FileDecodes(ProcLines[i])
             /\ StepFrames[n] = Frame(StepFrames[n].target, LastSymbol.name,
                                      FileOf(ProcLines[i]), ProcLines[i].line_start)
             /\ ProcLines[i].length # None) =>
                StepFrames[n].target
                    < to_rva(ProcLines[i].offset)[1] + ProcLines[i].length[1]

\* some record of an inlinee's line table has no length
SomeSizeUnknown(records) == \E i \in 1..Len(records) : records[i].length = None

(***************************************************************************)
(* C14.  After an inline site with a listed inlinee whose line records all  *)
(* name files that decode and one of which has no length: the run has not   *)
(* panicked, and the test of every LineInfo against every target was made,  *)
(* a LineInfo of unknown size covering from its address to the next         *)
(* LineInfo's address.                                                      *)
(***************************************************************************)
C14_UnknownSizeDoesNotAbort ==
    (/\ AfterListedSite
     /\ FilesDecode(pdb[mi].inlinees[LastSymbol.inlinee])
     /\ SomeSizeUnknown(pdb[mi].inlinees[LastSymbol.inlinee])) =>
        /\ status # "panic"
        /\ \A j \in 1..Len(SiteLineInfos) : \A k \in 1..Len(targets) :
              InSpecRange(SiteLineInfos, j, targets[k]) =>
                 \E n \in 1..Len(StepFrames) :
                    /\ StepFrames[n].target = targets[k]
                    /\ StepFrames[n].line = SiteLineInfos[j].line

(***************************************************************************)
(* C15.  After a procedure record P that parsed is handled: when P's offset *)
(* is in discarded code, so has no flat address, P printed no frame, its    *)
(* offset is on the stack and the run goes on; otherwise every frame P      *)
(* printed names P and is for a target T with start <= T < start + P.len,   *)
(* start the flat address of P's offset.                                    *)
(***************************************************************************)
C15_ProcedureFrameOnlyInTranslatedRange ==
    (InModule /\ si > 0 /\ parse(LastSymbol) = "Procedure") =>
        IF LastSymbol.offset \in Discarded
        THEN /\ StepFrames = <<>>
             /\ status \notin {"panic", "error"}
             /\ proc_offsets # <<>>
             /\ Top(proc_offsets)[2] = LastSymbol.offset
        ELSE \A n \in 1..Len(StepFrames) :
                /\ StepFrames[n].name = LastSymbol.name
                /\ SectionRva + LastSymbol.offset <= StepFrames[n].target
                /\ StepFrames[n].target < SectionRva + LastSymbol.offset + LastSymbol.len

\* a procedure in discarded code printed nothing for a target its range would hold,
\* and an inline site after it has printed a frame
C15_Witness ==
    /\ InModule
    /\ si = 2
    /\ pdb[mi].symbols[1] = ProcDead
    /\ AfterListedSite
    /\ \E k \in 1..Len(targets) :
          /\ SectionRva + ProcDead.offset <= targets[k]
          /\ targets[k] < SectionRva + ProcDead.offset + ProcDead.len
    /\ Len(out) = 1
    /\ out[1].name # ProcDead.name

IsPrefix(a, b) == Len(a) <= Len(b) /\ SubSeq(b, 1, Len(a)) = a

\* the targets of a step's frames are the target list, in its order and with its
\* repetitions, less the targets that got no frame
InTargetListOrder(frames, tgts) ==
    [n \in 1..Len(frames) |-> frames[n].target]
        = SelectSeq(tgts, LAMBDA t : \E n \in 1..Len(frames) : frames[n].target = t)

FramesInStepOrder ==
    /\ (InModule /\ si > 0 /\ parse(LastSymbol) = "Procedure"
          /\ status \notin {"panic", "error"}) =>
            InTargetListOrder(StepFrames, targets)
    /\ (AfterListedSite /\ status \notin {"panic", "error"}) =>
            StepFrames = ExpectedForSite(SiteLineInfos, NameInIpi(LastSymbol.inlinee),
                                         targets, 1)

(***************************************************************************)
(* C16.  Frames are printed in discovery order, nothing sorted or dropped:  *)
(* every step leaves what was printed in place and adds its frames at the   *)
(* end, so a procedure's frames precede those of the sites nested in it;    *)
(* a procedure record that was handled to its end printed its frames in     *)
(* target-list order, a target listed k times getting its frame k times;    *)
(* an inline site handled to its end printed its frames LineInfo by         *)
(* LineInfo, and for each LineInfo in target-list order.                    *)
(***************************************************************************)
C16_FramesInDiscoveryOrder ==
    /\ []FramesInStepOrder
    /\ [][IsPrefix(out, out')]_vars

\* a site with two LineInfo and two targets: the first LineInfo's frames for both
\* targets come before the second's, after the procedure's own two frames
C16_Witness ==
    /\ AfterListedSite
    /\ status = "symbols"
    /\ targets = <<SectionRva + 2, SectionRva + 1>>
    /\ Len(out) = 5
    /\ out[1].name = "foo" /\ out[2].name = "foo"
    /\ out[1].target = SectionRva + 2 /\ out[2].target = SectionRva + 1
    /\ Len(StepFrames) = 3
    /\ StepFrames[1].target = SectionRva + 2
    /\ StepFrames[2].target = SectionRva + 1
    /\ StepFrames[3].target = SectionRva + 2
    /\ StepFrames[1].line = StepFrames[2].line
    /\ StepFrames[3].line # StepFrames[1].line

(***************************************************************************)
(* C17.  When a run has returned Ok: for every target T of its list, the    *)
(* frames for T in its output, in order, are the frames dump_pdb prints     *)
(* when run on the same file with T alone, that is with the other targets   *)
(* taken off the list (<<T>> for a target listed once), and that run        *)
(* returns Ok too.                                                          *)
(***************************************************************************)
C17_TargetsDoNotInterfere ==
    status = "done" =>
        \A k \in 1..Len(targets) :
            LET alone == FileFrames(pdb, 1, SelectSeq(targets, LAMBDA t : t = targets[k]))
            IN /\ alone.end = "ok"
               /\ FramesFor(out, targets[k]) = alone.frames

\* two targets of one procedure, the first found by the early exit of the scan, the
\* second by a later record
C17_Witness ==
    /\ status = "done"
    /\ Len(targets) = 2
    /\ Len(out) = 2
    /\ out[1].name = "foo" /\ out[2].name = "foo"
    /\ out[1].target = targets[1] /\ out[2].target = targets[2]
    /\ out[1].line < out[2].line

\* what every module's walk is claimed to start from
FreshLocals == [depth |-> 0, inc_next |-> FALSE, proc_offsets |-> <<>>]

\* the frames of the first m modules read so far, each module's walk taken on its own
RECURSIVE FramesModuleByModule(_)
FramesModuleByModule(m) ==
    IF m = 0 THEN <<>>
    ELSE FramesModuleByModule(m - 1)
         \o (IF pdb[m].info = "ok"
             THEN WalkFrames(pdb[m].symbols, 1, FreshLocals, pdb[m].program,
                             pdb[m].inlinees, targets).frames
             ELSE <<>>)

(***************************************************************************)
(* C18.  While the run has not been aborted: a module whose walk is about   *)
(* to start has depth 0, no pending increment and an empty procedure stack, *)
(* whatever the walk of the module before left; and the output is, module   *)
(* after module, the frames of that module's records walked from that fresh *)
(* state, so a module's frames do not depend on the modules before it.      *)
(***************************************************************************)
C18_ModulesStartFresh ==
    (mi > 0 /\ status \notin {"panic", "error"}) =>
        /\ (InModule /\ si = 0) => Locals = FreshLocals
        /\ out = FramesModuleByModule(mi)

\* the first module left a procedure's scope open; the second module's walk has handled
\* a procedure record of its own and holds that procedure alone on its stack
C18_Witness ==
    /\ mi = 2
    /\ pdb[1].info = "ok"
    /\ pdb[1].symbols = <<ProcFoo>>
    /\ InModule
    /\ si = 1
    /\ LastSymbol = ProcBaz
    /\ status = "symbols"
    /\ depth = 0
    /\ proc_offsets = <<<<0, ProcBaz.offset>>>>
    /\ Len(out) = 2

====
